---- MODULE Spec2Model ----
(***************************************************************************)
(* Model of the RMD DRC smart-servo driver (hal::actuator::rmd_drc):       *)
(* src/src/smart_servo/rmd/drc.cpp and                                     *)
(* src/include/libhal-actuator/smart_servo/rmd/drc.hpp.                    *)
(*                                                                         *)
(* Two execution contexts share the driver object:                         *)
(*   - the caller, which constructs the driver and issues commands; each   *)
(*     command runs rmd_drc::send (record counter, transmit, poll);        *)
(*   - the transport, which hands inbound frames to the callback that the  *)
(*     constructor installed on the route item of the device ID.           *)
(***************************************************************************)
EXTENDS Integers, Sequences, FiniteSets, TLC

VARIABLES
    pc,                       \* position of the caller
    cmd,                      \* the command the caller is executing
    p_payload,                \* send(): the payload argument
    original_message_number,  \* send(): the local captured at drc.cpp:113
    timeout,                  \* send(): the timeout token, <<>> when none exists
    result,                   \* how the caller's last call ended
    m_feedback,               \* rmd_drc::m_feedback
    m_route_item,             \* rmd_drc::m_route_item, the router's entry for the ID
    spy_send,                 \* every frame handed to the transport's send(), in order
    rx_msg,                   \* the frame last passed to rmd_drc::operator()
    handler_calls,            \* history: number of invocations of rmd_drc::operator()
    rx_count,                 \* history: inbound events produced by the environment
    calls_at_record,          \* history: handler_calls when send() recorded the counter
    fb_at_record,             \* history: m_feedback when send() recorded the counter
    tx,                       \* history: outcome of the transport's send() in this call
    n_commands,               \* history: commands issued after construction
    args,                     \* history: the arguments of the command in cmd
    handler_pc                \* position of the transport's context in operator()

vars == <<pc, cmd, p_payload, original_message_number, timeout, result,
          m_feedback, m_route_item, spy_send, rx_msg, handler_calls, rx_count,
          calls_at_record, fb_at_record, tx, n_commands, args, handler_pc>>

(***************************************************************************)
(* Bounds of the model.                                                    *)
(***************************************************************************)
MaxFrames == 3          \* inbound events the environment produces
MaxCommands == 1        \* commands issued after construction
MaxResponseTicks == 1   \* clock ticks that make up m_max_response_time

(***************************************************************************)
(* Program constants.                                                      *)
(***************************************************************************)
U16 == 65536            \* a std::uint32_t is held as two 16-bit halves, hi and lo
m_device_id == 320      \* 0x140
m_gear_ratio == 6

multi_turns_angle == 146         \* 0x92
status_1_and_error_flags == 154  \* 0x9A
status_2 == 156                  \* 0x9C
speed == 162                     \* 0xA2
position_2 == 164                \* 0xA4
clear_error_flag == 155          \* 0x9B
off == 128                       \* 0x80
stop == 129                      \* 0x81
running == 136                   \* 0x88

read == {multi_turns_angle, status_1_and_error_flags, status_2}
system == {clear_error_flag, off, stop, running}

(***************************************************************************)
(* Integer conversions, as static_cast performs them.                      *)
(***************************************************************************)
RECURSIVE BitOr(_, _)
BitOr(a, b) ==
    IF a = 0 THEN b
    ELSE IF b = 0 THEN a
    ELSE (IF a % 2 = 1 \/ b % 2 = 1 THEN 1 ELSE 0) + 2 * BitOr(a \div 2, b \div 2)

to_int8(v) == LET w == v % 256 IN IF w >= 128 THEN w - 256 ELSE w
to_int16(v) == LET w == v % 65536 IN IF w >= 32768 THEN w - 65536 ELSE w

(***************************************************************************)
(* can::message_t and feedback_t.                                          *)
(***************************************************************************)
message(p_id, payload) == [id |-> p_id, length |-> 8, payload |-> payload]

\* payload[i] of the C++ array, which is indexed from 0
data(p_message, i) == p_message.payload[i + 1]

\* std::uint32_t 0
u32_zero == [hi |-> 0, lo |-> 0]
\* std::int64_t 0, as its eight bytes, least significant first
i64_zero == <<0, 0, 0, 0, 0, 0, 0, 0>>

feedback_t == [message_number |-> u32_zero,
               raw_multi_turn_angle |-> i64_zero,
               raw_current |-> 0,
               raw_speed |-> 0,
               raw_volts |-> 0,
               encoder |-> 0,
               raw_motor_temperature |-> 0,
               raw_error_state |-> 0]

feedback == m_feedback

\* the fields of the snapshot other than message_number
Telemetry(fb) == [fb EXCEPT !.message_number = u32_zero]

(***************************************************************************)
(* rmd_drc::operator(): the inbound-frame handler.                         *)
(***************************************************************************)
\* as increment, with the counter held at 0xFFFFFFFF once it is reached
increment_saturating(fb) ==
    [fb EXCEPT !.message_number =
        IF @.lo + 1 < U16 THEN [@ EXCEPT !.lo = @ + 1]
        ELSE IF @.hi + 1 < U16 THEN [hi |-> @.hi + 1, lo |-> 0]
        ELSE @]

\* m_feedback.message_number++ on a std::uint32_t
increment(fb) ==
    [fb EXCEPT !.message_number =
        IF @.lo + 1 < U16 THEN [@ EXCEPT !.lo = @ + 1]
        ELSE [hi |-> (@.hi + 1) % U16, lo |-> 0]]

\* as accepted, without the test of the length
accepted_any_length(p_message) == p_message.id = m_device_id

\* the guard of the early return, negated
accepted(p_message) == p_message.length = 8 /\ p_message.id = m_device_id

\* as decode_status_2, without the casts to std::int16_t
decode_status_2_unsigned(fb, p_message) ==
    [fb EXCEPT
       !.raw_motor_temperature = to_int8(data(p_message, 1)),
       !.raw_current = BitOr(data(p_message, 3) * 256, data(p_message, 2) * 1),
       !.raw_speed = BitOr(data(p_message, 5) * 256, data(p_message, 4) * 1),
       !.encoder = BitOr(data(p_message, 7) * 256, data(p_message, 6) * 1)]

\* case read::status_2, actuate::speed, actuate::position_2
decode_status_2(fb, p_message) ==
    [fb EXCEPT
       !.raw_motor_temperature = to_int8(data(p_message, 1)),
       !.raw_current =
           to_int16(BitOr(data(p_message, 3) * 256, data(p_message, 2) * 1)),
       !.raw_speed =
           to_int16(BitOr(data(p_message, 5) * 256, data(p_message, 4) * 1)),
       !.encoder =
           to_int16(BitOr(data(p_message, 7) * 256, data(p_message, 6) * 1))]

\* as decode_status_1, with the volts read from bytes 2 and 3
decode_status_1_shifted(fb, p_message) ==
    [fb EXCEPT
       !.raw_motor_temperature = to_int8(data(p_message, 1)),
       !.raw_volts = to_int16(BitOr(data(p_message, 3) * 256, data(p_message, 2))),
       !.raw_error_state = data(p_message, 7)]

\* case read::status_1_and_error_flags
decode_status_1(fb, p_message) ==
    [fb EXCEPT
       !.raw_motor_temperature = to_int8(data(p_message, 1)),
       !.raw_volts = to_int16(BitOr(data(p_message, 4) * 256, data(p_message, 3))),
       !.raw_error_state = data(p_message, 7)]

\* hal::bit_value(0U) holds an unsigned int of 32 bits, here its four bytes.
\* insert<byte_m<k>> shifts the byte left by 8k and masks it with 0xFF << 8k.
\* For k >= 4 the shift count is not smaller than the width of the type, which
\* is undefined: a build either yields 0 for such a shift (wide = FALSE: the byte
\* is dropped) or takes the count modulo 32 (wide = TRUE: the byte replaces
\* byte k - 4).
insert(value, k, byte, wrap) ==
    IF k < 4 THEN [value EXCEPT ![k + 1] = byte]
    ELSE IF wrap THEN [value EXCEPT ![k - 3] = byte]
    ELSE value

bit_value(p_message, wrap) ==
    insert(insert(insert(insert(insert(insert(insert(<<0, 0, 0, 0>>,
        0, data(p_message, 1), wrap),
        1, data(p_message, 2), wrap),
        2, data(p_message, 3), wrap),
        3, data(p_message, 4), wrap),
        4, data(p_message, 5), wrap),
        5, data(p_message, 6), wrap),
        6, data(p_message, 7), wrap)

\* .to<std::int64_t>() of an unsigned 32-bit value: the upper four bytes are 0
to_int64(value) == value \o <<0, 0, 0, 0>>

multi_turn_outcomes(p_message) ==
    { to_int64(bit_value(p_message, wrap)) : wrap \in BOOLEAN }

\* as decode_multi_turns_angle, with the angle stored in an empty snapshot
decode_multi_turns_angle_fresh(fb, p_message) ==
    { [feedback_t EXCEPT !.message_number = fb.message_number,
                         !.raw_multi_turn_angle = v] :
        v \in multi_turn_outcomes(p_message) }

\* case read::multi_turns_angle
decode_multi_turns_angle(fb, p_message) ==
    { [fb EXCEPT !.raw_multi_turn_angle = v] : v \in multi_turn_outcomes(p_message) }

\* the switch on p_message.payload[0]
decode(fb, p_message) ==
    IF data(p_message, 0) \in {status_2, speed, position_2}
      THEN {decode_status_2(fb, p_message)}
    ELSE IF data(p_message, 0) = status_1_and_error_flags
      THEN {decode_status_1(fb, p_message)}
    ELSE IF data(p_message, 0) = multi_turns_angle
      THEN decode_multi_turns_angle(fb, p_message)
    ELSE {fb}

\* as operator_call, with the increment placed after the early return
operator_call_counts_accepted(fb, p_message) ==
    IF accepted(p_message) THEN decode(increment(fb), p_message)
    ELSE {fb}

\* the snapshots rmd_drc::operator()(p_message) can leave, called on snapshot fb
operator_call(fb, p_message) ==
    IF accepted(p_message) THEN decode(increment(fb), p_message)
    ELSE {increment(fb)}

(***************************************************************************)
(* Encoding of the commands.                                               *)
(***************************************************************************)
Int32Max == 2147483647
Int32Min == (-Int32Max) - 1

\* reciprocals of dps_per_lsb_speed (0.01) and dps_per_lsb_angle (1.0)
lsb_per_dps_speed == 100
lsb_per_dps_angle == 1
\* 1 / 1.0_deg_per_sec: degrees per second in one rpm
dps_per_rpm == 6
\* reciprocal of deg_per_lsb (0.01f)
lsb_per_deg == 100

\* bounds_check<std::int32_t> of value * scale: whether the product lies within
\* the range of the type (otherwise the call throws); scale > 0
in_bounds(value, scale) ==
    /\ value <= Int32Max \div scale
    /\ value >= -(Int32Max \div scale)

\* as rpm_to_drc_speed, without the gear ratio
rpm_to_drc_speed_no_gear(p_rpm, p_gear_ratio, p_lsb_per_dps) ==
    p_rpm * (dps_per_rpm * p_lsb_per_dps)

rpm_to_drc_speed(p_rpm, p_gear_ratio, p_lsb_per_dps) ==
    p_rpm * (p_gear_ratio * dps_per_rpm * p_lsb_per_dps)

\* static_cast<hal::byte>((v >> (8 * k)) & 0xFF) of a two's-complement value
byte_of(v, k) == (v \div (2 ^ (8 * k))) % 256

\* static_cast<std::int32_t>(float) of the quotient num / den: towards zero
to_int32(num, den) ==
    IF num >= 0 THEN num \div den ELSE -((-num) \div den)

\* the payload of velocity_control for the fixed-point speed speed_data
speed_payload(speed_data) ==
    <<speed, 0, 0, 0,
      byte_of(speed_data, 0), byte_of(speed_data, 1),
      byte_of(speed_data, 2), byte_of(speed_data, 3)>>

\* as velocity_payload, with the speed most significant byte first
velocity_payload_big_endian(p_rpm) ==
    LET speed_data == rpm_to_drc_speed(p_rpm, m_gear_ratio, lsb_per_dps_speed)
    IN  <<speed, 0, 0, 0,
          byte_of(speed_data, 3), byte_of(speed_data, 2),
          byte_of(speed_data, 1), byte_of(speed_data, 0)>>

velocity_payload(p_rpm) ==
    LET speed_data == rpm_to_drc_speed(p_rpm, m_gear_ratio, lsb_per_dps_speed)
    IN  <<speed, 0, 0, 0,
          byte_of(speed_data, 0), byte_of(speed_data, 1),
          byte_of(speed_data, 2), byte_of(speed_data, 3)>>

\* as position_payload, with the cap speed in the unit of the velocity command
position_payload_speed_lsb(p_angle, p_rpm) ==
    LET angle_data == p_angle * m_gear_ratio * lsb_per_deg
        speed_data == rpm_to_drc_speed(p_rpm, m_gear_ratio, lsb_per_dps_speed)
    IN  <<position_2, 0,
          byte_of(speed_data, 0), byte_of(speed_data, 1),
          byte_of(angle_data, 0), byte_of(angle_data, 1),
          byte_of(angle_data, 2), byte_of(angle_data, 3)>>

\* as position_payload, with the angle of the motor taken for that of the shaft
position_payload_no_gear(p_angle, p_rpm) ==
    LET angle_data == p_angle * lsb_per_deg
        speed_data == rpm_to_drc_speed(p_rpm, m_gear_ratio, lsb_per_dps_angle)
    IN  <<position_2, 0,
          byte_of(speed_data, 0), byte_of(speed_data, 1),
          byte_of(angle_data, 0), byte_of(angle_data, 1),
          byte_of(angle_data, 2), byte_of(angle_data, 3)>>

position_payload(p_angle, p_rpm) ==
    LET angle_data == p_angle * m_gear_ratio * lsb_per_deg
        speed_data == rpm_to_drc_speed(p_rpm, m_gear_ratio, lsb_per_dps_angle)
    IN  <<position_2, 0,
          byte_of(speed_data, 0), byte_of(speed_data, 1),
          byte_of(angle_data, 0), byte_of(angle_data, 1),
          byte_of(angle_data, 2), byte_of(angle_data, 3)>>

\* as opcode_payload, with the opcode in the last byte
opcode_payload_last_byte(p_command) == <<0, 0, 0, 0, 0, 0, 0, p_command>>

\* feedback_request and system_control: the opcode and seven zero bytes
opcode_payload(p_command) == <<p_command, 0, 0, 0, 0, 0, 0, 0>>

(***************************************************************************)
(* Inputs.                                                                 *)
(***************************************************************************)
RpmVals == {0, -10, 600000}
\* position_control(p_angle, p_rpm)
PositionVals == {<<45, 10>>, <<-15, 2000>>, <<4000000, 10>>}

RxFrames ==
    { message(m_device_id, <<status_2, 17, 34, 51, 68, 85, 102, 119>>),
      message(m_device_id, <<status_1_and_error_flags, 240, 1, 52, 146, 5, 6, 9>>),
      message(m_device_id, <<multi_turns_angle, 1, 2, 3, 4, 5, 6, 135>>),
      message(m_device_id, <<49, 1, 2, 3, 4, 5, 6, 7>>),
      [message(m_device_id, <<status_2, 1, 2, 3, 4, 5, 6, 7>>) EXCEPT !.length = 7],
      message(m_device_id + 1, <<status_2, 9, 9, 9, 9, 9, 9, 9>>) }

(***************************************************************************)
(* Initial state: the router exists, no driver has been constructed.       *)
(***************************************************************************)
no_route == [registered |-> FALSE, handler |-> "noop"]

Init ==
    /\ pc = "start"
    /\ cmd = "none"
    /\ p_payload = opcode_payload(0)
    /\ original_message_number = u32_zero
    /\ timeout = <<>>
    /\ result = "none"
    /\ m_feedback = feedback_t
    /\ m_route_item = no_route
    /\ spy_send = <<>>
    /\ rx_msg = message(0, opcode_payload(0))
    /\ handler_calls = 0
    /\ rx_count = 0
    /\ calls_at_record = 0
    /\ fb_at_record = feedback_t
    /\ tx = "none"
    /\ n_commands = 0
    /\ args = <<>>
    /\ handler_pc = "idle"

(***************************************************************************)
(* rmd_drc::send.                                                          *)
(***************************************************************************)
in_ctor == cmd \in {"ctor_off", "ctor_running"}

\* entry of send(): capture the message number prior to the send command
send(p_cmd, payload) ==
    /\ cmd' = p_cmd
    /\ p_payload' = payload
    /\ original_message_number' = feedback.message_number
    /\ pc' = "send_transmit"
    /\ result' = "pending"
    /\ calls_at_record' = handler_calls
    /\ fb_at_record' = m_feedback
    /\ tx' = "none"
    /\ UNCHANGED <<timeout, m_feedback, m_route_item, spy_send, rx_msg,
                   handler_calls, rx_count,
                   handler_pc>>

\* as throw, with the route item left in the router
throw_keeps_route(error) ==
    /\ result' = error
    /\ timeout' = <<>>
    /\ pc' = (IF in_ctor THEN "failed" ELSE "ready")
    /\ UNCHANGED m_route_item

\* as throw, with the constructor going on after its first command failed
throw_ctor_continues(error) ==
    /\ result' = error
    /\ timeout' = <<>>
    /\ IF cmd = "ctor_off"
         THEN pc' = "ctor_off_done" /\ UNCHANGED m_route_item
         ELSE IF in_ctor
           THEN pc' = "failed" /\ m_route_item' = no_route
           ELSE pc' = "ready" /\ UNCHANGED m_route_item

\* an exception leaves send() and the command; one that leaves the constructor
\* destroys the members already constructed, m_route_item among them, and the
\* route item's destructor takes the entry out of the router
throw(error) ==
    /\ result' = error
    /\ timeout' = <<>>
    /\ IF in_ctor
         THEN pc' = "failed" /\ m_route_item' = no_route
         ELSE pc' = "ready" /\ UNCHANGED m_route_item

\* as after_send, with the transport's error swallowed
after_send_swallowed(ok) == "send_wait"

\* where the caller is once the transport's send() returned or threw
after_send(ok) == IF ok THEN "send_wait" ELSE "throw"

\* m_router->bus().send(message(m_device_id, p_payload)), then create_timeout
Transmit ==
    /\ pc = "send_transmit"
    /\ \E ok \in BOOLEAN :
         /\ spy_send' = Append(spy_send, message(m_device_id, p_payload))
         /\ tx' = IF ok THEN "ok" ELSE "failed"
         /\ IF after_send(ok) = "send_wait"
              THEN /\ pc' = "send_wait"
                   /\ timeout' = <<MaxResponseTicks>>
                   /\ UNCHANGED <<result, m_route_item>>
              ELSE throw("io_error")
    /\ UNCHANGED <<cmd, p_payload, original_message_number, m_feedback, rx_msg,
                   handler_calls, rx_count, calls_at_record, fb_at_record,
                   n_commands, args,
                   handler_pc>>

\* as message_number_changed, with the comparison inverted
message_number_unchanged == original_message_number = feedback.message_number

\* as message_number_changed, with only a frame that passes the length/ID check
\* taken for a reply
message_number_changed_by_reply ==
    original_message_number # feedback.message_number /\ accepted(rx_msg)

\* the test of the wait loop
message_number_changed == original_message_number # feedback.message_number

\* the timeout token reports that the duration elapsed
expired == timeout[1] = 0

\* the caller is inside the wait loop of send()
waiting == pc \in {"send_wait", "send_timeout"}

\* as WaitCheck, with the timeout consulted before the counter is compared
WaitCheck_timeout_first ==
    /\ pc = "send_wait"
    /\ IF timeout[1] = 0
         THEN /\ result' = "timed_out"
              /\ timeout' = <<>>
              /\ pc' = IF in_ctor THEN "failed" ELSE "ready"
              /\ m_route_item' = IF in_ctor THEN no_route ELSE m_route_item
         ELSE /\ UNCHANGED m_route_item
              /\ IF original_message_number # feedback.message_number
                   THEN /\ result' = "ok"
                        /\ timeout' = <<>>
                        /\ pc' = IF cmd = "ctor_off" THEN "ctor_off_done" ELSE "ready"
                   ELSE /\ pc' = "send_timeout"
                        /\ UNCHANGED <<result, timeout>>
    /\ UNCHANGED <<cmd, p_payload, original_message_number, m_feedback,
                   spy_send, rx_msg, handler_calls, rx_count,
                   calls_at_record, fb_at_record, tx, n_commands, args,
                   handler_pc>>

\* the wait loop: if (original_message_number != feedback().message_number) return
WaitCheck ==
    /\ pc = "send_wait"
    /\ IF message_number_changed
         THEN /\ result' = "ok"
              /\ timeout' = <<>>
              /\ pc' = IF cmd = "ctor_off" THEN "ctor_off_done" ELSE "ready"
         ELSE /\ pc' = "send_timeout"
              /\ UNCHANGED <<result, timeout>>
    /\ UNCHANGED <<cmd, p_payload, original_message_number, m_feedback,
                   m_route_item, spy_send, rx_msg, handler_calls, rx_count,
                   calls_at_record, fb_at_record, tx, n_commands, args,
                   handler_pc>>

\* as WaitTimeout, with an elapsed timeout ending the wait as a success
WaitTimeout_returns ==
    /\ pc = "send_timeout"
    /\ IF expired
         THEN /\ result' = "ok"
              /\ timeout' = <<>>
              /\ pc' = IF cmd = "ctor_off" THEN "ctor_off_done" ELSE "ready"
              /\ UNCHANGED m_route_item
         ELSE /\ pc' = "send_wait"
              /\ UNCHANGED <<result, timeout, m_route_item>>
    /\ UNCHANGED <<cmd, p_payload, original_message_number, m_feedback, spy_send,
                   rx_msg, handler_calls, rx_count, calls_at_record, fb_at_record,
                   tx, n_commands, args,
                   handler_pc>>

\* as WaitTimeout, with the timeout token consulted and its answer dropped
WaitTimeout_ignored ==
    /\ pc = "send_timeout"
    /\ pc' = "send_wait"
    /\ UNCHANGED <<cmd, p_payload, original_message_number, timeout, result,
                   m_feedback, m_route_item, spy_send, rx_msg, handler_calls,
                   rx_count, calls_at_record, fb_at_record, tx, n_commands, args,
                   handler_pc>>

\* as WaitTimeout, with the frame sent again when the duration elapsed
WaitTimeout_retries ==
    /\ pc = "send_timeout"
    /\ IF expired
         THEN /\ pc' = "send_transmit"
              /\ timeout' = <<>>
              /\ UNCHANGED <<result, m_route_item>>
         ELSE /\ pc' = "send_wait"
              /\ UNCHANGED <<result, timeout, m_route_item>>
    /\ UNCHANGED <<cmd, p_payload, original_message_number, m_feedback, spy_send,
                   rx_msg, handler_calls, rx_count, calls_at_record, fb_at_record,
                   tx, n_commands, args,
                   handler_pc>>

\* the wait loop: timeout(), which throws hal::timed_out once the duration elapsed
WaitTimeout ==
    /\ pc = "send_timeout"
    /\ IF expired
         THEN throw("timed_out")
         ELSE /\ pc' = "send_wait"
              /\ UNCHANGED <<result, timeout, m_route_item>>
    /\ UNCHANGED <<cmd, p_payload, original_message_number, m_feedback, spy_send,
                   rx_msg, handler_calls, rx_count, calls_at_record, fb_at_record,
                   tx, n_commands, args,
                   handler_pc>>

\* the steady clock advances while a timeout token exists
Tick ==
    /\ waiting
    /\ timeout[1] > 0
    /\ timeout' = <<timeout[1] - 1>>
    /\ UNCHANGED <<pc, cmd, p_payload, original_message_number, result, m_feedback,
                   m_route_item, spy_send, rx_msg, handler_calls, rx_count,
                   calls_at_record, fb_at_record, tx, n_commands, args,
                   handler_pc>>

(***************************************************************************)
(* rmd_drc::rmd_drc.                                                       *)
(***************************************************************************)
\* the member initialisers: m_feedback{}, m_route_item(add_message_callback(id))
CtorRegister ==
    /\ pc = "start"
    /\ pc' = "ctor_registered"
    /\ m_feedback' = feedback_t
    /\ m_route_item' = [registered |-> TRUE, handler |-> "noop"]
    /\ UNCHANGED <<cmd, p_payload, original_message_number, timeout, result,
                   spy_send, rx_msg, handler_calls, rx_count, calls_at_record,
                   fb_at_record, tx, n_commands, args,
                   handler_pc>>

\* as CtorInstall, with the handler left for after the two commands
CtorInstall_skipped ==
    /\ pc = "ctor_registered"
    /\ pc' = "ctor_installed"
    /\ UNCHANGED <<cmd, p_payload, original_message_number, timeout, result,
                   m_feedback, m_route_item, spy_send, rx_msg, handler_calls,
                   rx_count, calls_at_record, fb_at_record, tx, n_commands, args,
                   handler_pc>>

\* m_route_item.get().handler = std::ref(*this)
CtorInstall ==
    /\ pc = "ctor_registered"
    /\ pc' = "ctor_installed"
    /\ m_route_item' = [m_route_item EXCEPT !.handler = "driver"]
    /\ UNCHANGED <<cmd, p_payload, original_message_number, timeout, result,
                   m_feedback, spy_send, rx_msg, handler_calls, rx_count,
                   calls_at_record, fb_at_record, tx, n_commands, args,
                   handler_pc>>

\* as ctor_first, with system::stop
ctor_first_stop == stop

\* the opcode of the first command of the constructor
ctor_first == off

\* rmd_drc::system_control(system::off)
CtorOff ==
    /\ pc = "ctor_installed"
    /\ send("ctor_off", opcode_payload(ctor_first))
    /\ args' = <<ctor_first>>
    /\ UNCHANGED n_commands

\* rmd_drc::system_control(system::running)
CtorRunning ==
    /\ pc = "ctor_off_done"
    /\ send("ctor_running", opcode_payload(running))
    /\ args' = <<running>>
    /\ UNCHANGED n_commands

(***************************************************************************)
(* The public commands, called on a constructed driver.                    *)
(***************************************************************************)
callable == pc = "ready" /\ n_commands < MaxCommands

\* as out_of_bounds, with the value saturated and the command carried on
out_of_bounds_swallowed(p_cmd) ==
    send(p_cmd, <<speed, 0, 0, 0, 255, 255, 255, 127>>)

\* a bounds error: the command ends before send() is entered
out_of_bounds(p_cmd) ==
    /\ cmd' = p_cmd
    /\ result' = "out_of_bounds"
    /\ calls_at_record' = handler_calls
    /\ fb_at_record' = m_feedback
    /\ tx' = "none"
    /\ UNCHANGED <<pc, p_payload, original_message_number, timeout, m_feedback,
                   m_route_item, spy_send, rx_msg, handler_calls, rx_count,
                   handler_pc>>

feedback_request(p_command) ==
    /\ callable
    /\ n_commands' = n_commands + 1
    /\ args' = <<p_command>>
    /\ send("feedback_request", opcode_payload(p_command))

system_control(p_system_command) ==
    /\ callable
    /\ n_commands' = n_commands + 1
    /\ args' = <<p_system_command>>
    /\ send("system_control", opcode_payload(p_system_command))

velocity_control(p_rpm) ==
    /\ callable
    /\ n_commands' = n_commands + 1
    /\ args' = <<p_rpm>>
    /\ IF in_bounds(p_rpm, m_gear_ratio * dps_per_rpm * lsb_per_dps_speed)
         THEN send("velocity_control", velocity_payload(p_rpm))
         ELSE out_of_bounds("velocity_control")

\* as position_control, with the cap speed checked against 16 bits
position_control_checks_16(p_angle, p_rpm) ==
    /\ callable
    /\ n_commands' = n_commands + 1
    /\ args' = <<p_angle, p_rpm>>
    /\ IF /\ in_bounds(p_angle, m_gear_ratio * lsb_per_deg)
          /\ in_bounds(p_rpm, m_gear_ratio * dps_per_rpm * lsb_per_dps_angle * U16)
         THEN send("position_control", position_payload(p_angle, p_rpm))
         ELSE out_of_bounds("position_control")

position_control(p_angle, p_rpm) ==
    /\ callable
    /\ n_commands' = n_commands + 1
    /\ args' = <<p_angle, p_rpm>>
    /\ IF /\ in_bounds(p_angle, m_gear_ratio * lsb_per_deg)
          /\ in_bounds(p_rpm, m_gear_ratio * dps_per_rpm * lsb_per_dps_angle)
         THEN send("position_control", position_payload(p_angle, p_rpm))
         ELSE out_of_bounds("position_control")

\* feedback_t::speed(): raw_speed * 1.0_deg_per_sec, the rpm as the fraction
\* num / den (1.0_deg_per_sec is a sixth of an rpm)
feedback_speed(fb) == [num |-> fb.raw_speed, den |-> dps_per_rpm]

\* velocity_control(p_rpm) for an rpm that is the fraction p_rpm.num / p_rpm.den
velocity_control_fraction(p_rpm) ==
    /\ callable
    /\ n_commands' = n_commands + 1
    /\ args' = <<p_rpm.num, p_rpm.den>>
    /\ LET speed_data ==
             to_int32(rpm_to_drc_speed(p_rpm.num, m_gear_ratio, lsb_per_dps_speed),
                      p_rpm.den)
       IN  IF in_bounds(speed_data, 1)
             THEN send("velocity_control_speed", speed_payload(speed_data))
             ELSE out_of_bounds("velocity_control_speed")

\* the caller commands the speed that the snapshot reports:
\* velocity_control(feedback().speed())
velocity_control_feedback_speed ==
    velocity_control_fraction(feedback_speed(feedback))

(***************************************************************************)
(* Inbound frames.                                                         *)
(***************************************************************************)
\* rmd_drc::operator()(p_message) runs on the driver
invoke(p_message) ==
    /\ m_feedback' \in operator_call(m_feedback, p_message)
    /\ rx_msg' = p_message
    /\ handler_calls' = handler_calls + 1

\* the router looks the frame's ID up and calls the handler of the entry
routed(p_message) ==
    m_route_item.registered /\ p_message.id = m_device_id
        /\ m_route_item.handler = "driver"

\* a frame arrives from the bus, on the transport's execution context
RouterReceive(p_message) ==
    /\ rx_count < MaxFrames
    /\ rx_count' = rx_count + 1
    /\ IF routed(p_message)
         THEN invoke(p_message)
         ELSE UNCHANGED <<m_feedback, rx_msg, handler_calls>>
    /\ UNCHANGED <<pc, cmd, p_payload, original_message_number, timeout, result,
                   m_route_item, spy_send, calls_at_record, fb_at_record, tx,
                   n_commands, args,
                   handler_pc>>

\* the caller invokes driver(p_message) itself
DirectCall(p_message) ==
    /\ pc = "ready"
    /\ rx_count < MaxFrames
    /\ rx_count' = rx_count + 1
    /\ invoke(p_message)
    /\ UNCHANGED <<pc, cmd, p_payload, original_message_number, timeout, result,
                   m_route_item, spy_send, calls_at_record, fb_at_record, tx,
                   n_commands, args,
                   handler_pc>>

\* the transport's context, running beside the caller, enters operator() and
\* executes m_feedback.message_number++
HandlerBegin(p_message) ==
    /\ handler_pc = "idle"
    /\ rx_count < MaxFrames
    /\ routed(p_message)
    /\ rx_count' = rx_count + 1
    /\ handler_pc' = "entered"
    /\ m_feedback' = increment(m_feedback)
    /\ rx_msg' = p_message
    /\ handler_calls' = handler_calls + 1
    /\ UNCHANGED <<pc, cmd, p_payload, original_message_number, timeout, result,
                   m_route_item, spy_send, calls_at_record, fb_at_record, tx,
                   n_commands, args>>

\* the transport's context executes the rest of operator(): the early return
\* or the switch
HandlerFinish ==
    /\ handler_pc = "entered"
    /\ handler_pc' = "idle"
    /\ m_feedback' \in (IF accepted(rx_msg) THEN decode(m_feedback, rx_msg)
                        ELSE {m_feedback})
    /\ UNCHANGED <<pc, cmd, p_payload, original_message_number, timeout, result,
                   m_route_item, spy_send, rx_msg, handler_calls, rx_count,
                   calls_at_record, fb_at_record, tx, n_commands, args>>

(***************************************************************************)
(* Specification.                                                          *)
(***************************************************************************)
Next ==
    \/ CtorRegister
    \/ CtorInstall
    \/ CtorOff
    \/ CtorRunning
    \/ Transmit
    \/ WaitCheck
    \/ WaitTimeout
    \/ Tick
    \/ \E k \in read : feedback_request(k)
    \/ \E k \in system : system_control(k)
    \/ \E r \in RpmVals : velocity_control(r)
    \/ \E a \in PositionVals : position_control(a[1], a[2])
    \/ \E m \in RxFrames : RouterReceive(m)
    \/ \E m \in RxFrames : DirectCall(m)

Spec == Init /\ [][Next]_vars

(***************************************************************************)
(* The handler as a function of the frame: a constructed, idle driver      *)
(* holding some snapshot is handed one frame.                              *)
(***************************************************************************)
ByteVals == {1, 128, 255}
Opcodes == {status_2, speed, position_2, status_1_and_error_flags,
            multi_turns_angle, 49, clear_error_flag}

CodecFrames ==
    { [id |-> i, length |-> l, payload |-> <<op, b1, b2, b3, b4, b5, b6, b7>>] :
        i \in {m_device_id, m_device_id + 1}, l \in {7, 8}, op \in Opcodes,
        b1 \in ByteVals, b2 \in ByteVals, b3 \in ByteVals, b4 \in ByteVals,
        b5 \in ByteVals, b6 \in ByteVals, b7 \in ByteVals }
    \cup RxFrames

\* snapshots of a driver that has handled frames before
PriorSnapshots ==
    { [feedback_t EXCEPT !.message_number = [hi |-> 0, lo |-> 2]],
      [message_number |-> [hi |-> U16 - 1, lo |-> U16 - 1],
       raw_multi_turn_angle |-> <<9, 8, 7, 6, 0, 0, 0, 0>>,
       raw_current |-> -5,
       raw_speed |-> 7,
       raw_volts |-> 240,
       encoder |-> -2,
       raw_motor_temperature |-> 25,
       raw_error_state |-> 8] }

InitCodec ==
    /\ pc = "ready"
    /\ cmd = "ctor_running"
    /\ p_payload = opcode_payload(running)
    /\ original_message_number = [hi |-> 0, lo |-> 1]
    /\ timeout = <<>>
    /\ result = "ok"
    /\ m_feedback \in PriorSnapshots
    /\ m_route_item = [registered |-> TRUE, handler |-> "driver"]
    /\ spy_send = <<message(m_device_id, opcode_payload(off)),
                    message(m_device_id, opcode_payload(running))>>
    /\ rx_msg \in CodecFrames
    /\ handler_calls = 0
    /\ rx_count = 0
    /\ calls_at_record = 0
    /\ fb_at_record = feedback_t
    /\ tx = "ok"
    /\ n_commands = 0
    /\ args = <<running>>
    /\ handler_pc = "idle"

\* driver(rx_msg)
CodecCall ==
    /\ handler_calls = 0
    /\ DirectCall(rx_msg)

NextCodec == CodecCall

SpecCodec == InitCodec /\ [][NextCodec]_vars

(***************************************************************************)
(* The commands as functions of their arguments: a constructed, idle       *)
(* driver holding some snapshot is given commands.                         *)
(***************************************************************************)
EncodeRpmVals == {0, 10, -10, 123, 1024, 600000, -600000}
EncodePositionVals ==
    { <<0, 10>>, <<45, 10>>, <<90, 10>>, <<12, 10>>, <<-15, 10>>, <<-680, 10>>,
      <<45, 2000>>, <<45, -10>>, <<4000000, 10>>, <<-4000000, 10>>,
      <<45, 60000000>> }
EncodeRawSpeeds == {0, 7, -5, 32767, -32768}
\* message_number when the second command of the constructor recorded it, and
\* when the constructor returned: a driver built just now, and one whose counter
\* has reached 0xFFFFFFFF
EncodeCounters ==
    { [recorded |-> [hi |-> 0, lo |-> 1], now |-> [hi |-> 0, lo |-> 2]],
      [recorded |-> [hi |-> U16 - 1, lo |-> U16 - 2],
       now |-> [hi |-> U16 - 1, lo |-> U16 - 1]] }

InitEncode ==
    /\ pc = "ready"
    /\ cmd = "ctor_running"
    /\ p_payload = opcode_payload(running)
    /\ timeout = <<>>
    /\ result = "ok"
    /\ \E v \in EncodeRawSpeeds, c \in EncodeCounters :
         /\ original_message_number = c.recorded
         /\ fb_at_record = [feedback_t EXCEPT !.message_number = c.recorded]
         /\ m_feedback = [feedback_t EXCEPT !.message_number = c.now,
                                            !.raw_speed = v]
    /\ m_route_item = [registered |-> TRUE, handler |-> "driver"]
    /\ spy_send = <<message(m_device_id, opcode_payload(off)),
                    message(m_device_id, opcode_payload(running))>>
    /\ rx_msg = message(m_device_id, <<49, 1, 2, 3, 4, 5, 6, 7>>)
    /\ handler_calls = 2
    /\ rx_count = 0
    /\ calls_at_record = 1
    /\ tx = "ok"
    /\ n_commands = 0
    /\ args = <<running>>
    /\ handler_pc = "idle"

NextEncode ==
    \/ \E k \in read : feedback_request(k)
    \/ \E k \in system : system_control(k)
    \/ \E r \in EncodeRpmVals : velocity_control(r)
    \/ \E a \in EncodePositionVals : position_control(a[1], a[2])
    \/ velocity_control_feedback_speed
    \/ Transmit
    \/ WaitCheck
    \/ WaitTimeout
    \/ Tick
    \/ RouterReceive(message(m_device_id, <<49, 1, 2, 3, 4, 5, 6, 7>>))

SpecEncode == InitEncode /\ [][NextEncode]_vars

\* the caller, once inside the wait loop of send(), keeps executing it, and the
\* steady clock advances
SpecLive ==
    SpecEncode /\ WF_vars(WaitCheck) /\ WF_vars(WaitTimeout) /\ WF_vars(Tick)

(***************************************************************************)
(* The handler on an execution context that runs beside the caller (a      *)
(* thread, another core): the caller's steps fall between the statements   *)
(* of operator(), and no lock orders them.                                 *)
(***************************************************************************)
NextThreads ==
    \/ \E k \in read : feedback_request(k)
    \/ Transmit
    \/ WaitCheck
    \/ WaitTimeout
    \/ Tick
    \/ \E m \in RxFrames : HandlerBegin(m)
    \/ HandlerFinish

SpecThreads == InitEncode /\ [][NextThreads]_vars

(***************************************************************************)
(* Properties.                                                             *)
(***************************************************************************)
\* b is a + 1 as an unsigned 32-bit number held in two halves
PlusOne(a, b) ==
    /\ (b.lo - a.lo) % U16 = 1
    /\ b.hi = (IF a.lo = U16 - 1 THEN (a.hi + 1) % U16 ELSE a.hi)

\* a step in which rmd_drc::operator() ran
Handled == handler_calls' = handler_calls + 1

\* two's-complement readings of bytes
S8(b) == IF b >= 128 THEN b - 256 ELSE b
S16(lo, hi) == IF hi >= 128 THEN lo + 256 * hi - 65536 ELSE lo + 256 * hi

\* the frame fails the length/ID check
Rejected(m) == m.length # 8 \/ m.id # 320
\* byte 0 is none of 0x9C, 0xA2, 0xA4, 0x9A, 0x92
Unrecognized(m) == m.payload[1] \notin {156, 162, 164, 154, 146}

\* the frame of a command that is an opcode and seven zero bytes
OpcodeFrame(op) ==
    [id |-> 320, length |-> 8, payload |-> <<op, 0, 0, 0, 0, 0, 0, 0>>]

\* C1: every invocation of the inbound-frame handler increments message_number
\* by exactly one (as an unsigned 32-bit number, 0xFFFFFFFF being followed by
\* 0), whatever the frame is: recognized, unrecognized, of a length other than
\* 8 or of another ID.
C1_IncrementPerInvocation ==
    [][Handled =>
         PlusOne(m_feedback.message_number, m_feedback'.message_number)]_vars

\* a frame of another ID was handled by a driver whose counter stood at 2
C1_Witness ==
    /\ handler_calls = 1
    /\ m_feedback.message_number = [hi |-> 0, lo |-> 3]
    /\ rx_msg.id # 320
    /\ rx_msg.length = 8

\* C2: a command ends in success only if its frame was handed to the transport,
\* the transport accepted it, and the handler ran at least once after the
\* command recorded message_number.
C2_SuccessNeedsLaterFrame ==
    result = "ok" =>
        /\ tx = "ok"
        /\ Len(spy_send) >= 1
        /\ spy_send[Len(spy_send)] = [id |-> 320, length |-> 8, payload |-> p_payload]
        /\ handler_calls > calls_at_record

\* a velocity command on the constructed driver succeeded, and frames had been
\* handled before it started
C2_Witness ==
    /\ result = "ok"
    /\ pc = "ready"
    /\ cmd = "velocity_control"
    /\ calls_at_record >= 2

C4_TransportErrorPropagates ==
    tx = "failed" =>
        /\ result = "io_error"
        /\ pc \in {"ready", "failed"}
        /\ timeout = <<>>

\* the transport failed the frame of a command issued on the constructed driver
C4_Witness ==
    /\ tx = "failed"
    /\ cmd = "feedback_request"
    /\ pc = "ready"
    /\ result = "io_error"

\* C5 as stated: construction sends the stop frame (0x81), then the run frame
C5_Original ==
    (pc = "ready" /\ n_commands = 0) =>
        spy_send = <<OpcodeFrame(129), OpcodeFrame(136)>>

\* C5: a successful construction has sent exactly two frames when it returns,
\* the off frame (0x80) and then the run frame (0x88), each the opcode and seven
\* zero bytes addressed to the device ID.
C5_ConstructionFrames ==
    (pc = "ready" /\ n_commands = 0) =>
        spy_send = <<OpcodeFrame(128), OpcodeFrame(136)>>

\* construction has just returned
C5_Witness ==
    /\ pc = "ready"
    /\ n_commands = 0
    /\ cmd = "ctor_running"
    /\ result = "ok"
    /\ Len(spy_send) = 2

\* C6: when the first command of the constructor fails, construction has
\* failed, with a transport error if the transport's send failed and with a
\* timeout otherwise, and exactly one frame, the first, has been sent.
C6_FirstFailureStopsConstruction ==
    (cmd = "ctor_off" /\ result \in {"io_error", "timed_out"}) =>
        /\ pc = "failed"
        /\ spy_send = <<OpcodeFrame(128)>>
        /\ (result = "io_error") = (tx = "failed")

\* the first command timed out, and frames arrived afterwards
C6_Witness ==
    /\ cmd = "ctor_off"
    /\ result = "timed_out"
    /\ pc = "failed"
    /\ rx_count = MaxFrames

C8_IgnoredFrames ==
    [][(Handled /\ (Rejected(rx_msg') \/ Unrecognized(rx_msg'))) =>
         /\ Telemetry(m_feedback') = Telemetry(m_feedback)
         /\ result' = result
         /\ pc' = pc]_vars

\* a status_2 frame of length 7 was handled and the telemetry is the earlier one
C8_Witness ==
    /\ handler_calls = 1
    /\ rx_msg.length = 7
    /\ rx_msg.id = 320
    /\ rx_msg.payload[1] = 156
    /\ m_feedback.raw_current = -5
    /\ m_feedback.message_number = u32_zero

\* C9: a valid frame whose byte 0 is 0x9C, 0xA2 or 0xA4 sets the temperature to
\* byte 1 as a signed 8-bit value, and current, speed and encoder to bytes 2-3,
\* 4-5 and 6-7 as little-endian signed 16-bit values.
C9_Status2Decode ==
    [][(Handled /\ ~Rejected(rx_msg') /\ rx_msg'.payload[1] \in {156, 162, 164}) =>
         LET b == rx_msg'.payload IN
         /\ m_feedback'.raw_motor_temperature = S8(b[2])
         /\ m_feedback'.raw_current = S16(b[3], b[4])
         /\ m_feedback'.raw_speed = S16(b[5], b[6])
         /\ m_feedback'.encoder = S16(b[7], b[8])]_vars

\* an echoed speed frame with negative fields was decoded
C9_Witness ==
    /\ handler_calls = 1
    /\ rx_msg = [id |-> 320, length |-> 8,
                 payload |-> <<162, 128, 255, 255, 1, 128, 255, 1>>]
    /\ m_feedback.raw_motor_temperature = -128
    /\ m_feedback.raw_current = -1
    /\ m_feedback.raw_speed = -32767
    /\ m_feedback.encoder = 511

\* C10: a valid frame whose byte 0 is 0x9A sets the temperature to byte 1 as a
\* signed 8-bit value, the volts to bytes 3-4 as a little-endian signed 16-bit
\* value, and the error state to byte 7.
C10_Status1Decode ==
    [][(Handled /\ ~Rejected(rx_msg') /\ rx_msg'.payload[1] = 154) =>
         LET b == rx_msg'.payload IN
         /\ m_feedback'.raw_motor_temperature = S8(b[2])
         /\ m_feedback'.raw_volts = S16(b[4], b[5])
         /\ m_feedback'.raw_error_state = b[8]]_vars

\* a status_1 frame with negative volts was decoded
C10_Witness ==
    /\ handler_calls = 1
    /\ rx_msg = [id |-> 320, length |-> 8,
                 payload |-> <<154, 255, 1, 128, 255, 1, 1, 128>>]
    /\ m_feedback.raw_motor_temperature = -1
    /\ m_feedback.raw_volts = -128
    /\ m_feedback.raw_error_state = 128

\* the eight bytes, least significant first, of the 64-bit integer that holds
\* bytes 1-7 of the payload as a little-endian signed 56-bit quantity
S56(b) == <<b[2], b[3], b[4], b[5], b[6], b[7], b[8],
            IF b[8] >= 128 THEN 255 ELSE 0>>

\* C11: once a valid frame whose byte 0 is 0x92 has been handled,
\* raw_multi_turn_angle is the signed 56-bit quantity of bytes 1-7, little-endian
\* and sign-extended to 64 bits: negative when the top bit of byte 7 is set, with
\* bytes 5-7 in bits 32-55.
C11_SignedAngle56 ==
    (handler_calls >= 1 /\ ~Rejected(rx_msg) /\ rx_msg.payload[1] = 146) =>
        m_feedback.raw_multi_turn_angle = S56(rx_msg.payload)

\* C12: a handled frame leaves the fields its kind does not carry as they were:
\* a status_2-shaped frame the volts, the error state and the multi-turn angle;
\* a status_1 frame the current, the speed, the encoder and the multi-turn
\* angle; a multi-turn-angle frame every field but the angle and message_number.
C12_MergeKeepsOtherFields ==
    [][(Handled /\ ~Rejected(rx_msg')) =>
         LET op == rx_msg'.payload[1]
             old == m_feedback
             new == m_feedback'
         IN  /\ op \in {156, 162, 164} =>
                  /\ new.raw_volts = old.raw_volts
                  /\ new.raw_error_state = old.raw_error_state
                  /\ new.raw_multi_turn_angle = old.raw_multi_turn_angle
             /\ op = 154 =>
                  /\ new.raw_current = old.raw_current
                  /\ new.raw_speed = old.raw_speed
                  /\ new.encoder = old.encoder
                  /\ new.raw_multi_turn_angle = old.raw_multi_turn_angle
             /\ op = 146 =>
                  /\ new.raw_current = old.raw_current
                  /\ new.raw_speed = old.raw_speed
                  /\ new.raw_volts = old.raw_volts
                  /\ new.encoder = old.encoder
                  /\ new.raw_motor_temperature = old.raw_motor_temperature
                  /\ new.raw_error_state = old.raw_error_state]_vars

\* a multi-turn-angle frame was handled on a snapshot that held telemetry: the
\* angle is new and the other fields are the earlier ones
C12_Witness ==
    /\ handler_calls = 1
    /\ ~Rejected(rx_msg)
    /\ rx_msg.payload[1] = 146
    /\ m_feedback.raw_multi_turn_angle # <<9, 8, 7, 6, 0, 0, 0, 0>>
    /\ m_feedback.raw_current = -5
    /\ m_feedback.raw_speed = 7
    /\ m_feedback.raw_volts = 240
    /\ m_feedback.encoder = -2
    /\ m_feedback.raw_motor_temperature = 25
    /\ m_feedback.raw_error_state = 8

\* the frame last handed to the transport's send()
LastFrame == spy_send[Len(spy_send)]

\* the bytes, least significant first, of v as a two's-complement number of 32
\* bits, and of the low 16 bits of v
LE32(v) ==
    LET w == IF v >= 0 THEN v ELSE (v + 2147483647) + 1
    IN  <<w % 256, (w \div 256) % 256, (w \div 65536) % 256,
          (w \div 16777216) + (IF v < 0 THEN 128 ELSE 0)>>
LE16(v) == LET w == v % 65536 IN <<w % 256, w \div 256>>

\* the number that four bytes, least significant first, hold in two's complement
FromLE32(b) ==
    b[1] + 256 * b[2] + 65536 * b[3]
        + 16777216 * (IF b[4] >= 128 THEN b[4] - 256 ELSE b[4])

\* value * scale lies outside the range of a signed 32-bit integer (scale > 0)
Exceeds32(value, scale) ==
    value > 2147483647 \div scale \/ value < -(2147483647 \div scale)

\* the call in cmd ended with the bounds error, at once and with nothing sent
BoundsErrorOnly ==
    /\ result = "out_of_bounds"
    /\ tx = "none"
    /\ pc = "ready"
    /\ timeout = <<>>

\* C13: a velocity command whose speed rpm * 6 * g / 0.01, or a position command
\* whose angle angle * g / 0.01 or cap speed rpm * 6 * g, lies outside the signed
\* 32-bit range ends with a bounds error: the transport's send() is not called
\* and the command does not wait (g = 6).
C13_BoundsErrorBeforeSend ==
    /\ (cmd = "velocity_control" /\ Exceeds32(args[1], 6 * 6 * 100))
          => BoundsErrorOnly
    /\ (cmd = "position_control"
          /\ (Exceeds32(args[1], 6 * 100) \/ Exceeds32(args[2], 6 * 6)))
          => BoundsErrorOnly

\* a position command with an angle in range and a cap speed out of range ended
\* with the bounds error, and the frames sent are those of the construction
C13_Witness ==
    /\ cmd = "position_control"
    /\ args = <<45, 60000000>>
    /\ result = "out_of_bounds"
    /\ n_commands = 1
    /\ Len(spy_send) = 2

\* C14: the frame that velocity_control(rpm) hands to the transport goes to the
\* device ID with length 8, byte 0 = 0xA2, bytes 1-3 = 0 and bytes 4-7 the
\* little-endian two's-complement 32-bit value rpm * 6 * g / 0.01 (g = 6), for
\* positive, zero and negative rpm; 0 rpm gives A2 00 00 00 00 00 00 00.
C14_VelocityFrame ==
    (cmd = "velocity_control" /\ tx # "none") =>
        /\ LastFrame = [id |-> 320, length |-> 8,
                        payload |-> <<162, 0, 0, 0>> \o LE32(args[1] * 6 * 6 * 100)]
        /\ args[1] = 0 => LastFrame.payload = <<162, 0, 0, 0, 0, 0, 0, 0>>

\* -10 rpm was sent as -36000 = 0xFFFF7360
C14_Witness ==
    /\ cmd = "velocity_control"
    /\ args = <<-10>>
    /\ tx = "ok"
    /\ LastFrame.payload = <<162, 0, 0, 0, 96, 115, 255, 255>>

\* C15: the frame that position_control(angle, rpm) hands to the transport goes
\* to the device ID with length 8, byte 0 = 0xA4, byte 1 = 0, bytes 2-3 the
\* little-endian low 16 bits of the cap speed rpm * 6 * g and bytes 4-7 the
\* little-endian two's-complement 32-bit value angle * g / 0.01 (g = 6), for
\* positive, zero and negative angles.
C15_PositionFrame ==
    (cmd = "position_control" /\ tx # "none") =>
        LastFrame = [id |-> 320, length |-> 8,
                     payload |-> <<164, 0>> \o LE16(args[2] * 6 * 6)
                                    \o LE32(args[1] * 6 * 100)]

\* -680 degrees at 10 rpm was sent as 360 and -408000 = 0xFFF9C640
C15_Witness ==
    /\ cmd = "position_control"
    /\ args = <<-680, 10>>
    /\ tx = "ok"
    /\ LastFrame.payload = <<164, 0, 104, 1, 64, 198, 249, 255>>

\* C16 as stated: a position command for 45 degrees carries 78 68 01 00
\* (0x00016878) in bytes 4-7
C16_Original ==
    (cmd = "position_control" /\ args[1] = 45 /\ tx # "none") =>
        SubSeq(LastFrame.payload, 5, 8) = <<120, 104, 1, 0>>

\* C16: a position command for 45 degrees with gear ratio 6 carries 78 69 00 00
\* in bytes 4-7, the angle field 0x00006978 = 27000, which is (45 * 6) / 0.01.
C16_Angle45Field ==
    (cmd = "position_control" /\ args[1] = 45 /\ tx # "none") =>
        /\ SubSeq(LastFrame.payload, 5, 8) = <<120, 105, 0, 0>>
        /\ FromLE32(SubSeq(LastFrame.payload, 5, 8)) = (45 * 6) * 100

\* position_control(45 degrees, 10 rpm) has sent its frame
C16_Witness ==
    /\ cmd = "position_control"
    /\ args = <<45, 10>>
    /\ tx = "ok"
    /\ LastFrame.payload = <<164, 0, 104, 1, 120, 105, 0, 0>>

\* C17: feedback_request(kind) and system_control(kind), the two calls of the
\* constructor included, hand the transport one frame each, of length 8 to the
\* device ID, with byte 0 the opcode (0x92, 0x9A, 0x9C; 0x9B, 0x80, 0x81, 0x88)
\* and bytes 1-7 zero; the frame goes to the end of the frames sent so far, so
\* the frames are in the order of the calls.
C17_OpcodeFramesInOrder ==
    [][(spy_send' # spy_send
          /\ cmd \in {"feedback_request", "system_control", "ctor_off",
                      "ctor_running"}) =>
         /\ args[1] \in {146, 154, 156, 155, 128, 129, 136}
         /\ spy_send' = Append(spy_send, OpcodeFrame(args[1]))]_vars

\* construction and then feedback_request(status_1_and_error_flags)
C17_Witness ==
    /\ cmd = "feedback_request"
    /\ spy_send = <<OpcodeFrame(128), OpcodeFrame(136), OpcodeFrame(154)>>

\* the calls of commands made so far, those of the constructor included
CallsMade ==
    (IF cmd = "none" THEN 0 ELSE IF cmd = "ctor_off" THEN 1 ELSE 2) + n_commands

\* C18: no command is retried: a call hands the transport a frame only if it
\* has handed it none yet, one frame at a time, so the frames sent never
\* outnumber the calls of commands made, the construction counting as two.
C18_NoRetry ==
    [][/\ spy_send' # spy_send =>
            (tx = "none" /\ Len(spy_send') = Len(spy_send) + 1)
       /\ Len(spy_send') <= CallsMade']_vars

\* a velocity command timed out, and three frames were sent in all
C18_Witness ==
    /\ cmd = "velocity_control"
    /\ result = "timed_out"
    /\ pc = "ready"
    /\ n_commands = 1
    /\ Len(spy_send) = 3

\* C19 as stated: velocity_control(feedback().speed()) sends the raw speed of
\* the snapshot, up to one unit of rounding
C19_Original ==
    (cmd = "velocity_control_speed" /\ tx # "none") =>
        LET sent == FromLE32(SubSeq(LastFrame.payload, 5, 8))
        IN  sent - args[1] \in {-1, 0, 1}

\* C19: velocity_control(feedback().speed()) sends the raw speed of the snapshot
\* multiplied by g / 0.01 = 600 (g = 6): speed() reads raw_speed as 1 degree per
\* second per unit and applies no gear ratio, the command writes 0.01 degrees
\* per second per unit and applies it.
C19_RoundTripScales ==
    (cmd = "velocity_control_speed" /\ tx # "none") =>
        /\ args[2] = 6
        /\ FromLE32(SubSeq(LastFrame.payload, 5, 8)) = args[1] * 6 * 100

\* the raw speed -5 was read as -5/6 rpm and sent as -3000
C19_Witness ==
    /\ cmd = "velocity_control_speed"
    /\ args = <<-5, 6>>
    /\ tx = "ok"
    /\ FromLE32(SubSeq(LastFrame.payload, 5, 8)) = -3000

\* C20: when the wait loop tests the counter and the handler has run since the
\* command recorded it, for whatever frame and be it while the transmit was in
\* progress, the command returns success.
C20_AnyHandledFrameSatisfies ==
    [][(pc = "send_wait" /\ pc' # "send_wait"
          /\ handler_calls > calls_at_record) =>
         /\ result' = "ok"
         /\ pc' \in {"ready", "ctor_off_done"}]_vars

\* a command succeeded on one frame that failed the length check and updated no
\* field of the telemetry
C20_Witness ==
    /\ result = "ok"
    /\ cmd = "system_control"
    /\ pc = "ready"
    /\ handler_calls = calls_at_record + 1
    /\ rx_msg.length = 7
    /\ Telemetry(m_feedback) = Telemetry(fb_at_record)

\* a <= b, as unsigned 32-bit numbers held in two halves
LessEq(a, b) == a.hi < b.hi \/ (a.hi = b.hi /\ a.lo <= b.lo)

\* C21 as stated: message_number never decreases, and the wait loop, testing
\* the counter after the handler ran, finds it different from the recorded one
C21_Original ==
    [][/\ LessEq(m_feedback.message_number, m_feedback'.message_number)
       /\ (pc = "send_wait" /\ handler_calls > calls_at_record) =>
              original_message_number # m_feedback.message_number]_vars

\* C21: message_number changes only when the handler runs, and then to the next
\* unsigned 32-bit number: it never decreases but from 0xFFFFFFFF to 0, and the
\* wait loop, testing the counter after the handler ran (fewer than 2^32
\* times), finds it different from the recorded one.
C21_CounterModulo ==
    [][LET old == m_feedback.message_number
           new == m_feedback'.message_number
       IN  /\ new # old => (Handled /\ PlusOne(old, new))
           /\ Handled => new # old
           /\ ~LessEq(old, new) =>
                  (old = [hi |-> 65535, lo |-> 65535] /\ new = [hi |-> 0, lo |-> 0])
           /\ (pc = "send_wait" /\ handler_calls > calls_at_record) =>
                  original_message_number # old]_vars

\* a command recorded 0xFFFFFFFF, a frame took the counter to 0, and the
\* command returned success
C21_Witness ==
    /\ result = "ok"
    /\ n_commands = 1
    /\ original_message_number = [hi |-> 65535, lo |-> 65535]
    /\ m_feedback.message_number = [hi |-> 0, lo |-> 0]

\* C22: with the clock advancing, a command that is in the wait loop of send()
\* leaves it: it returns success or fails with a timeout error.
C22_CommandEnds ==
    waiting ~> (~waiting /\ result \in {"ok", "timed_out"})

\* a feedback request timed out after the clock ran the whole response time
\* down, no frame having been handled since the construction
C22_Witness ==
    /\ cmd = "feedback_request"
    /\ result = "timed_out"
    /\ pc = "ready"
    /\ handler_calls = 2
    /\ timeout = <<>>

\* C23: each iteration of the wait loop compares the counter first: when it
\* differs from the recorded value the command returns success, whatever the
\* timeout token would report; the token is consulted only after a comparison
\* that found the counter equal, and the timeout error is raised only there.
C23_CounterBeforeTimeout ==
    [][/\ (pc = "send_wait" /\ pc' # "send_wait"
             /\ original_message_number # m_feedback.message_number) =>
              (result' = "ok" /\ pc' \in {"ready", "ctor_off_done"})
       /\ (pc' = "send_timeout" /\ pc # "send_timeout") =>
              (pc = "send_wait"
                 /\ original_message_number = m_feedback.message_number)
       /\ (result' = "timed_out" /\ result # "timed_out") =>
              (pc = "send_timeout" /\ timeout = <<0>>)]_vars

\* a position command is about to compare the counter: the response time has
\* elapsed and a frame has been handled since the record
C23_Witness ==
    /\ cmd = "position_control"
    /\ pc = "send_wait"
    /\ timeout = <<0>>
    /\ result = "pending"
    /\ handler_calls = calls_at_record + 1
    /\ original_message_number # m_feedback.message_number

\* C24: when a command returns success and the frame last passed to the handler
\* is a valid status_2 frame, the snapshot holds the fields of that frame at the
\* return.
C24_FieldsAtReturn ==
    [][(result' = "ok" /\ result = "pending"
          /\ ~Rejected(rx_msg') /\ rx_msg'.payload[1] = 156) =>
         LET b == rx_msg'.payload IN
         /\ m_feedback'.raw_motor_temperature = S8(b[2])
         /\ m_feedback'.raw_current = S16(b[3], b[4])
         /\ m_feedback'.raw_speed = S16(b[5], b[6])
         /\ m_feedback'.encoder = S16(b[7], b[8])]_vars

\* the constructor has entered its first command and has not failed
Constructing == cmd \in {"ctor_off", "ctor_running"} /\ pc # "failed"

\* C25: from the first command of the constructor on, the first transmit
\* included, the entry of the device ID in the router holds the driver's
\* handler: no frame of the device ID can arrive without the handler running,
\* and each such frame advances message_number by one.
C25_HandlerInstalledFirst ==
    /\ Constructing =>
         /\ m_route_item = [registered |-> TRUE, handler |-> "driver"]
         /\ \A m \in RxFrames :
              m.id = 320 => ~ENABLED (RouterReceive(m) /\ ~Handled)
    /\ Constructing =>
         m_feedback.message_number = [hi |-> 0, lo |-> handler_calls]

\* a frame was handled while the first transmit of the constructor was in
\* progress, and the counter stands at 1
C25_Witness ==
    /\ cmd = "ctor_off"
    /\ pc = "send_transmit"
    /\ Len(spy_send) = 0
    /\ handler_calls = 1
    /\ m_feedback.message_number = [hi |-> 0, lo |-> 1]

\* C26: a position command whose angle is in range and whose cap speed
\* rpm * 6 * g (g = 6) fits 32 bits but not 16 raises no bounds error, and the
\* frame it sends carries in bytes 2-3 the cap speed modulo 2^16, a value other
\* than the one requested.
C26_CapSpeedTruncated ==
    (cmd = "position_control"
       /\ ~Exceeds32(args[1], 6 * 100) /\ ~Exceeds32(args[2], 6 * 6)
       /\ (args[2] * 6 * 6 > 65535 \/ args[2] * 6 * 6 < -32768)) =>
        /\ result # "out_of_bounds"
        /\ tx # "none" =>
             LET sent == LastFrame.payload[3] + 256 * LastFrame.payload[4]
             IN  /\ sent = (args[2] * 6 * 6) % 65536
                 /\ sent # args[2] * 6 * 6
                 /\ S16(LastFrame.payload[3], LastFrame.payload[4])
                        # args[2] * 6 * 6

\* a cap speed of 2000 rpm, 72000 deg/s, was sent as 40 19 (6464)
C26_Witness ==
    /\ cmd = "position_control"
    /\ args = <<45, 2000>>
    /\ tx = "ok"
    /\ result = "ok"
    /\ SubSeq(LastFrame.payload, 3, 4) = <<64, 25>>

====
